---- MODULE Spec2Model ----
(***************************************************************************)
(* Model of CircularBuffer.cpp: a fixed-size ring of bytes that stores     *)
(* variable-sized blocks keyed by the caller's block address, with lazy    *)
(* delete and compaction.  Pointers into the ring are modelled as offsets  *)
(* from buf (so bufLastPlusOne is the offset bufSize).                     *)
(***************************************************************************)
EXTENDS Integers, Sequences, FiniteSets, TLC

\* ------------------------------------------------------------------ bounds
\* Size handed to the CircularBuffer constructor.
BufSize == 4
\* Number of distinct caller block addresses (map keys).
NumKeys == 2
\* Number of distinct payload contents a caller block may hold.
NumTags == 2
\* Cap on the length of the block list (zero-length blocks never fill the ring).
MaxBlocks == 3
\* Cap on bufBytesDeletePending, which repeated deletes of one block raise
\* without limit.
MaxPending == 5
\* Number of public calls made on the buffer in one run.
MaxCalls == 6
\* Number of threads that call into one buffer, and of calls they make in all.
NumThreads == 2
ThreadCalls == 3
\* uint_t is size_t; modelled with UintBits bits so that x - y wraps as in C.
UintBits == 16

UintMod == 2 ^ UintBits
Keys == 1 .. NumKeys
Tags == 1 .. NumTags
Sizes == 0 .. (BufSize + 1)
\* Contents malloc may hand back for the ring (never written before first use).
UninitBytes == {0, 99}

\* The bytes of a caller block: distinct per tag and per position, never NUL.
Data(tag, len) == [i \in 1 .. len |-> 10 * tag + i]

\* ------------------------------------------------------------ result codes
RC_SUCCESS == "RC_SUCCESS"
RC_BLOCK_SIZE_EXCEEDS_FREE_SPACE == "RC_BLOCK_SIZE_EXCEEDS_FREE_SPACE"
RC_BLOCK_ADD_FAILED_DUPLICATE == "RC_BLOCK_ADD_FAILED_DUPLICATE"
RC_BLOCK_ADD_FAILED_MAP_ERR == "RC_BLOCK_ADD_FAILED_MAP_ERR"
RC_BLOCK_NOT_FOUND == "RC_BLOCK_NOT_FOUND"
RC_BLOCK_MAP_ERASE_ERR == "RC_BLOCK_MAP_ERASE_ERR"

\* --------------------------------------------------------- uint_t arithmetic
USub(a, b) == (a - b) % UintMod
UAdd(a, b) == (a + b) % UintMod

VARIABLES
    bufSize,                \* size of the ring; bufLastPlusOne is buf + bufSize
    buf,                    \* ring contents, offset -> byte
    bufStart,               \* offset of the oldest byte
    bufEnd,                 \* offset one past the newest byte
    bufBytesFree,           \* free bytes, not counting pending deletes
    bufBytesDeletePending,  \* bytes of blocks marked deleted
    blockList,              \* BufBlock list, head first
    blockMap,               \* key -> index in blockList of its BufBlock, 0 if absent
    halted,                 \* a memory fault ended the run
    last,                   \* the last public call, what it met and what it returned
    bufInfo,                \* the BufInfo filled in by the last call
    out,                    \* bytes written by the last printBuf
    live,                   \* blocks added with RC_SUCCESS and not deleted since
    callsLeft,              \* number of public calls the caller has yet to make
    pc,                     \* thread -> where it stands inside a public call
    loc                     \* thread -> arguments and local variables of its call

vars == << bufSize, buf, bufStart, bufEnd, bufBytesFree, bufBytesDeletePending,
           blockList, blockMap, halted, last, bufInfo, out, live, callsLeft,
           pc, loc >>

\* The private members of a CircularBuffer, as one record.
Members == [ bufSize |-> bufSize, buf |-> buf, bufStart |-> bufStart, bufEnd |-> bufEnd,
             bufBytesFree |-> bufBytesFree,
             bufBytesDeletePending |-> bufBytesDeletePending,
             blockList |-> blockList, blockMap |-> blockMap,
             fault |-> "none" ]

\* ------------------------------------------------------------------ memmove
\* Worst of two fault levels: "none" < "oob" (a few bytes outside the ring,
\* the build may survive it) < "wild" (a length no mapping can hold).
Worst(f, g) ==
    IF f = "wild" \/ g = "wild" THEN "wild"
    ELSE IF f = "oob" \/ g = "oob" THEN "oob"
    ELSE "none"

\* Offsets of the bytes of the ring.
Idx(s) == 0 .. (s.bufSize - 1)

\* Fault level of a copy of len bytes whose ring-side range starts at p.
RangeFault(s, p, len) ==
    IF len = 0 THEN "none"
    ELSE IF len >= UintMod \div 2 THEN "wild"
    ELSE IF p < 0 \/ p + len > s.bufSize THEN "oob"
    ELSE "none"

\* memmove(buf + dst, buf + src, len): overlap-safe copy inside the ring.
\* Bytes that fall outside the ring are not part of the modelled memory.
MemmoveRing(s, dst, src, len) ==
    [s EXCEPT
        !.buf = [i \in Idx(s) |->
                    IF i >= dst /\ i < dst + len /\ (src + (i - dst)) \in Idx(s)
                    THEN s.buf[src + (i - dst)]
                    ELSE s.buf[i]],
        !.fault = Worst(s.fault, Worst(RangeFault(s, dst, len), RangeFault(s, src, len)))]

\* memmove(buf + dst, block + from, len): copy from the caller's block, whose
\* bytes are data[from + 1 .. from + len].
MemmoveIn(s, dst, data, from, len) ==
    [s EXCEPT
        !.buf = [i \in Idx(s) |->
                    IF i >= dst /\ i < dst + len /\ (from + (i - dst) + 1) \in DOMAIN data
                    THEN data[from + (i - dst) + 1]
                    ELSE s.buf[i]],
        !.fault = Worst(s.fault, RangeFault(s, dst, len))]

\* -------------------------------------------------------------- block list
SeqRemove(q, i) == SubSeq(q, 1, i - 1) \o SubSeq(q, i + 1, Len(q))

\* removeBlockFromList: unlink the i-th BufBlock (head, tail or interior).
\* The map holds BufBlock pointers; as indices they follow the unlinking.
removeBlockFromList(s, i) ==
    [s EXCEPT
        !.blockList = SeqRemove(s.blockList, i),
        !.blockMap = [k \in DOMAIN s.blockMap |->
                         IF s.blockMap[k] > i THEN s.blockMap[k] - 1
                         ELSE s.blockMap[k]]]

\* deleteBlockFromMap: blockMap.erase(block); the result code is ignored by
\* its only caller.
deleteBlockFromMap(s, key) ==
    [s EXCEPT !.blockMap = [s.blockMap EXCEPT ![key] = 0]]

\* ------------------------------------------------------- removeBlockFromBuf
\* Definitions take the intermediate values of the code as parameters, one
\* definition per stretch of straight-line code.

\* Last copy of the wrapped arm: dst = buf; memmove(dst, src, bytesToMove);
\* bufEnd = dst + bytesToMove.
moveRest(s, src, bytesToMove) ==
    [MemmoveRing(s, 0, src, bytesToMove) EXCEPT !.bufEnd = bytesToMove]

\* The wrapped arm after its first copy.  In case1 a second copy of
\* len2 = bufLastPlusOne - dst bytes from buf fills the ring up to its end.
moveWrapped(s, dst, src, bytesToMove, case1) ==
    IF case1
    THEN moveRest(MemmoveRing(s, dst, 0, USub(s.bufSize, dst)),
                  USub(s.bufSize, dst),
                  USub(bytesToMove, USub(s.bufSize, dst)))
    ELSE moveRest(s, src, bytesToMove)

\* The body of the while loop (it runs once: both arms break), len1 given.
moveSplit(s, dst, src, bytesToMove, case1, len1) ==
    IF len1 >= bytesToMove
    THEN [MemmoveRing(s, dst, src, bytesToMove) EXCEPT !.bufEnd = dst + bytesToMove]
    ELSE moveWrapped(MemmoveRing(s, dst, src, len1), dst + len1, src + len1,
                     USub(bytesToMove, len1), case1)

\* while (bytesToMove) { ... }
moveBytes(s, dst, src, bytesToMove, case1) ==
    IF bytesToMove = 0 THEN s
    ELSE moveSplit(s, dst, src, bytesToMove, case1,
                   USub(s.bufSize, IF case1 THEN src ELSE dst))

\* src = blk + blksz, wrapped once at bufLastPlusOne.
srcOf(s, blk, blksz) ==
    IF blk + blksz >= s.bufSize THEN blk + blksz - s.bufSize ELSE blk + blksz

\* bytesToMove as first computed, from src to bufEnd.
bytesAfter(s, src) ==
    IF src <= s.bufEnd
    THEN USub(s.bufEnd, src)
    ELSE UAdd(USub(s.bufSize, src), s.bufEnd)

\* blk == bufBlockHead->blockInBuf and blk == bufBlockTail->blockInBuf.
isHead(s, blk) == blk = s.blockList[1].blockInBuf
isTail(s, blk) == blk = s.blockList[Len(s.blockList)].blockInBuf

\* The two head/tail tests: bufStart = src, bufEnd = dst.
moveCursors(s, dst, src) ==
    [s EXCEPT !.bufStart = IF isHead(s, dst) THEN src ELSE @,
              !.bufEnd   = IF isTail(s, dst) THEN dst ELSE @]

\* bufBytesDeletePending -= blksz; bufBytesFree += blksz.
reclaim(s, blksz) ==
    [s EXCEPT !.bufBytesDeletePending = USub(@, blksz),
              !.bufBytesFree = UAdd(@, blksz)]

removeFrom(s, dst, src, blksz) ==
    reclaim(moveBytes(moveCursors(s, dst, src), dst, src,
                      IF isHead(s, dst) \/ isTail(s, dst) THEN 0
                      ELSE bytesAfter(s, src),
                      src > dst),
            blksz)

\* removeBlockFromBuf(blk, blksz): take the bytes of one block out of the ring.
removeBlockFromBuf(s, blk, blksz) == removeFrom(s, blk, srcOf(s, blk, blksz), blksz)

\* ------------------------------------------------------- updateBufBlockList
RECURSIVE relocate(_, _, _, _)
relocate(q, i, block, size) ==
    IF i > Len(q) THEN q
    ELSE relocate([q EXCEPT ![i].blockInBuf = block], i + 1,
                  IF block + q[i].blockSize >= size
                  THEN block + q[i].blockSize - size
                  ELSE block + q[i].blockSize,
                  size)

\* Update addresses of blocks in circular buffer after compaction.
updateBufBlockList(s) ==
    [s EXCEPT !.blockList = relocate(s.blockList, 1, s.bufStart, s.bufSize)]

\* --------------------------------------------------------------- compactBuf
\* The tail-to-head walk of compactBuf, standing at the i-th BufBlock
\* (i = 0 is the null pointer that ends the walk).
RECURSIVE compactWalk(_, _)
compactWalk(s, i) ==
    IF i = 0 THEN s
    ELSE IF ~s.blockList[i].blockDeletePending THEN compactWalk(s, i - 1)
    ELSE compactWalk(
            deleteBlockFromMap(
                removeBlockFromList(
                    removeBlockFromBuf(s, s.blockList[i].blockInBuf,
                                       s.blockList[i].blockSize),
                    i),
                s.blockList[i].blockMapKey),
            i - 1)

\* Compact blocks that are pending delete.
compactBuf(s) ==
    IF s.bufBytesDeletePending = 0 THEN s
    ELSE updateBufBlockList(compactWalk(s, Len(s.blockList)))

\* ---------------------------------------------------------------- checkSize
\* Fault-seeded variant of recheckSize: the test after compaction is missing.
recheckSizeDropped(s, blockSize) == [s |-> s, rc |-> RC_SUCCESS]

\* The last line of checkSize, on the compacted members.
recheckSize(s, blockSize) ==
    [s |-> s,
     rc |-> IF blockSize <= s.bufBytesFree
            THEN RC_SUCCESS ELSE RC_BLOCK_SIZE_EXCEEDS_FREE_SPACE]

\* Fault-seeded variant of checkSize: compaction runs before the test against
\* bufBytesFree + bufBytesDeletePending, so a rejected request has compacted.
checkSizeCompactsFirst(s, blockSize) ==
    IF blockSize <= s.bufBytesFree
    THEN [s |-> s, rc |-> RC_SUCCESS]
    ELSE recheckSize(compactBuf(s), blockSize)

\* Returns the members (compacted or not) and the result code.
checkSize(s, blockSize) ==
    IF blockSize <= s.bufBytesFree
    THEN [s |-> s, rc |-> RC_SUCCESS]
    ELSE IF blockSize > UAdd(s.bufBytesFree, s.bufBytesDeletePending)
    THEN [s |-> s, rc |-> RC_BLOCK_SIZE_EXCEEDS_FREE_SPACE]
    ELSE recheckSize(compactBuf(s), blockSize)

\* --------------------------------------------------------- appendBlockToBuf
\* memmove(bufEnd, src, len); bufEnd += len, wrapped; bufBytesFree -= blockSize.
copyRest(s, data, from, len, blockSize) ==
    [MemmoveIn(s, s.bufEnd, data, from, len) EXCEPT
        !.bufEnd = IF s.bufEnd + len >= s.bufSize THEN 0 ELSE s.bufEnd + len,
        !.bufBytesFree = USub(@, blockSize)]

\* The copy of appendBlockToBuf once checkSize has admitted the block: in two
\* parts when bufEnd > bufStart and the block is longer than len1.
copyBlock(s, data, blockSize, len1) ==
    IF s.bufEnd > s.bufStart /\ blockSize > len1
    THEN copyRest([MemmoveIn(s, s.bufEnd, data, 0, len1) EXCEPT !.bufEnd = 0],
                  data, len1, USub(blockSize, len1), blockSize)
    ELSE copyRest(s, data, 0, blockSize, blockSize)

\* appendBlockToBuf after its call of checkSize, whose result is c.
appendChecked(c, data, blockSize) ==
    IF c.rc # RC_SUCCESS THEN c
    ELSE [s |-> copyBlock(c.s, data, blockSize, USub(c.s.bufSize, c.s.bufEnd)),
          rc |-> RC_SUCCESS]

appendBlockToBuf(s, data, blockSize) ==
    appendChecked(checkSize(s, blockSize), data, blockSize)

\* --------------------------------------------------------------- setBufInfo
setBufInfo(s) ==
    [ bufSize      |-> s.bufSize,
      bufBytesFree |-> UAdd(s.bufBytesFree, s.bufBytesDeletePending),
      bufBytesUsed |-> USub(USub(s.bufSize, s.bufBytesFree), s.bufBytesDeletePending) ]

\* ------------------------------------------------------------ addBlockToBuf
\* findBlockInMap: the index of the key's BufBlock, 0 for RC_BLOCK_NOT_FOUND.
findBlockInMap(s, key) == s.blockMap[key]

\* addBlockToMap: std::map::insert, which refuses a key that is present.
addBlockToMap(s, key, i) ==
    IF s.blockMap[key] # 0
    THEN [s |-> s, rc |-> RC_BLOCK_ADD_FAILED_MAP_ERR]
    ELSE [s |-> [s EXCEPT !.blockMap = [s.blockMap EXCEPT ![key] = i]],
          rc |-> RC_SUCCESS]

\* The new BufBlock, linked at the tail and put in the map, when
\* appendBlockToBuf (result a) succeeded.
linkBlock(a, addr, key, blockSize) ==
    IF a.rc # RC_SUCCESS THEN a
    ELSE addBlockToMap(
            [a.s EXCEPT !.blockList =
                Append(@, [ blockInBuf |-> addr, blockMapKey |-> key,
                            blockSize |-> blockSize, blockDeletePending |-> FALSE ])],
            key, Len(a.s.blockList) + 1)

\* addBlockToBuf from "byte *blockAddrInBuf = bufEnd" on: the address is read
\* before appendBlockToBuf runs (and so before the compaction checkSize may do).
addFound(s, key, data, blockSize) ==
    linkBlock(appendBlockToBuf(s, data, blockSize), s.bufEnd, key, blockSize)

\* Fault-seeded variant of addBlockToBuf: the blockDeletePending test is
\* missing, every key found in the map is compacted away and added again.
addBlockToBufOverDuplicate(s, key, data, blockSize) ==
    IF findBlockInMap(s, key) = 0
    THEN addFound(s, key, data, blockSize)
    ELSE addFound(compactBuf(s), key, data, blockSize)

addBlockToBuf(s, key, data, blockSize) ==
    IF findBlockInMap(s, key) = 0
    THEN addFound(s, key, data, blockSize)
    ELSE IF s.blockList[findBlockInMap(s, key)].blockDeletePending
    THEN addFound(compactBuf(s), key, data, blockSize)
    ELSE [s |-> s, rc |-> RC_BLOCK_ADD_FAILED_DUPLICATE]

\* ------------------------------------------------------- deleteBlockFromBuf
\* Mark block for deletion.  The function returns RC_SUCCESS on every path.
deleteBlockFromBufReclaiming(s, key) ==
    [s |-> IF findBlockInMap(s, key) = 0 THEN s
           ELSE [s EXCEPT
                    !.bufBytesFree =
                        UAdd(@, s.blockList[findBlockInMap(s, key)].blockSize),
                    !.blockList[findBlockInMap(s, key)].blockDeletePending = TRUE],
     rc |-> RC_SUCCESS]

deleteBlockFromBuf(s, key) ==
    [s |-> IF findBlockInMap(s, key) = 0 THEN s
           ELSE [s EXCEPT
                    !.bufBytesDeletePending =
                        UAdd(@, s.blockList[findBlockInMap(s, key)].blockSize),
                    !.blockList[findBlockInMap(s, key)].blockDeletePending = TRUE],
     rc |-> RC_SUCCESS]

\* ----------------------------------------------------------------- printBuf
\* printf("%.*s", precision, buf + ptr): at most precision bytes, stopping at
\* a NUL byte.
RECURSIVE Printf(_, _, _)
Printf(b, ptr, precision) ==
    IF precision <= 0 \/ ptr \notin DOMAIN b \/ b[ptr] = 0 THEN << >>
    ELSE << b[ptr] >> \o Printf(b, ptr + 1, precision - 1)

\* Whether that printf reads past the last byte of the ring.
RECURSIVE PrintfOverrun(_, _, _)
PrintfOverrun(b, ptr, precision) ==
    IF precision <= 0 THEN FALSE
    ELSE IF ptr \notin DOMAIN b THEN TRUE
    ELSE IF b[ptr] = 0 THEN FALSE
    ELSE PrintfOverrun(b, ptr + 1, precision - 1)

\* printBuf after compactBuf: one printf, or two when the bytes wrap.
printBytes(s, bytesToPrint, toEnd) ==
    IF bytesToPrint <= toEnd
    THEN [s |-> [s EXCEPT !.fault =
                    IF PrintfOverrun(s.buf, s.bufStart, bytesToPrint)
                    THEN Worst(@, "oob") ELSE @],
          text |-> Printf(s.buf, s.bufStart, bytesToPrint)]
    ELSE [s |-> [s EXCEPT !.fault =
                    IF PrintfOverrun(s.buf, s.bufStart, toEnd)
                       \/ PrintfOverrun(s.buf, 0, bytesToPrint - toEnd)
                    THEN Worst(@, "oob") ELSE @],
          text |-> Printf(s.buf, s.bufStart, toEnd)
                   \o Printf(s.buf, 0, bytesToPrint - toEnd)]

\* Fault-seeded variant of printCompacted: a draining read, the bytes printed
\* are given back to the ring.
printCompactedDraining(s) ==
    printBytes([s EXCEPT !.bufStart = s.bufEnd, !.bufBytesFree = s.bufSize],
               USub(s.bufSize, s.bufBytesFree), USub(s.bufSize, s.bufStart))

printCompacted(s) ==
    printBytes(s, USub(s.bufSize, s.bufBytesFree), USub(s.bufSize, s.bufStart))

printBuf(s) == printCompacted(compactBuf(s))

\* ------------------------------------------------------------------ machine
\* bufInfo when the last call filled no BufInfo (the constructor, printBuf).
NoBufInfo == [bufSize |-> 0, bufBytesFree |-> 0, bufBytesUsed |-> 0]

\* The threads, and the locals of a thread that is in no call.
Threads == 1 .. NumThreads
NoLocals == [op |-> "none", key |-> 0, tag |-> 0, size |-> 0, rc |-> RC_SUCCESS,
             bufBlock |-> 0, blockAddrInBuf |-> 0,
             found |-> FALSE, pending |-> FALSE]

\* last after the constructor: no call made yet.
NoCall == [op |-> "init", key |-> 0, size |-> 0, rc |-> RC_SUCCESS,
           found |-> FALSE, pending |-> FALSE, prior |-> "init"]

\* initBuf, with malloc succeeding.
Init ==
    /\ bufSize = BufSize
    /\ \E v \in UninitBytes : buf = [i \in 0 .. (BufSize - 1) |-> v]
    /\ bufStart = 0
    /\ bufEnd = 0
    /\ bufBytesFree = BufSize
    /\ bufBytesDeletePending = 0
    /\ blockList = << >>
    /\ blockMap = [k \in Keys |-> 0]
    /\ halted = FALSE
    /\ last = NoCall
    /\ bufInfo = NoBufInfo
    /\ out = << >>
    /\ live = << >>
    /\ callsLeft = MaxCalls
    /\ pc = [t \in Threads |-> "idle"]
    /\ loc = [t \in Threads |-> NoLocals]

\* A public call as the caller sees it, before its result code is known:
\* found is what findBlockInMap answers as the call starts, pending the
\* blockDeletePending of the BufBlock found, prior the call made before it.
Call(op, key, size) ==
    [op |-> op, key |-> key, size |-> size, rc |-> RC_SUCCESS,
     found |-> key \in DOMAIN blockMap /\ blockMap[key] # 0,
     pending |-> key \in DOMAIN blockMap /\ blockMap[key] # 0
                 /\ blockList[blockMap[key]].blockDeletePending,
     prior |-> last.op]

\* A public call returns rc to the caller, leaving the members s.
Returns(s, call, rc, info, text, lv) ==
    /\ bufSize' = s.bufSize
    /\ buf' = s.buf
    /\ bufStart' = s.bufStart
    /\ bufEnd' = s.bufEnd
    /\ bufBytesFree' = s.bufBytesFree
    /\ bufBytesDeletePending' = s.bufBytesDeletePending
    /\ blockList' = s.blockList
    /\ blockMap' = s.blockMap
    /\ halted' = FALSE
    /\ last' = [call EXCEPT !.rc = rc]
    /\ bufInfo' = info
    /\ out' = text
    /\ live' = lv
    /\ UNCHANGED << pc, loc >>

\* A public call runs into a memory fault and returns nothing the model can
\* describe: the process is killed, or carries on with memory overwritten.
Dies(call) ==
    /\ halted' = TRUE
    /\ last' = [call EXCEPT !.rc = "NO_RETURN"]
    /\ UNCHANGED << bufSize, buf, bufStart, bufEnd, bufBytesFree,
                    bufBytesDeletePending, blockList, blockMap, bufInfo, out,
                    live, pc, loc >>

\* A public call ends.  A copy that leaves the ring by a few bytes may return
\* (the bytes outside the ring are lost to the model) or kill the process; after
\* a copy of a wrapped-around length the run is not followed any further.
Return(s, call, rc, info, text, lv) ==
    /\ callsLeft > 0
    /\ callsLeft' = callsLeft - 1
    /\ IF s.fault = "none" THEN Returns(s, call, rc, info, text, lv)
       ELSE IF s.fault = "wild" THEN Dies(call)
       ELSE Returns(s, call, rc, info, text, lv) \/ Dies(call)

\* The blocks the caller holds as stored, after Delete(key).
Forget(lv, key) == SelectSeq(lv, LAMBDA e : e.key # key)

\* rc = addBlockToBuf(block, blockSize, &bufInfo), with result r.
AddEnds(r, key, tag, size) ==
    /\ Len(r.s.blockList) <= MaxBlocks
    /\ Return(r.s, Call("add", key, size), r.rc, setBufInfo(r.s), << >>,
              IF r.rc = RC_SUCCESS
              THEN Append(live, [key |-> key, data |-> Data(tag, size)])
              ELSE live)

Add(key, tag, size) ==
    /\ ~halted
    /\ AddEnds(addBlockToBuf(Members, key, Data(tag, size), size), key, tag, size)

\* rc = deleteBlockFromBuf(block, &bufInfo), with result r.
DeleteEnds(r, key) ==
    /\ r.s.bufBytesDeletePending <= MaxPending
    /\ Return(r.s, Call("delete", key, 0), r.rc, setBufInfo(r.s), << >>,
              Forget(live, key))

Delete(key) ==
    /\ ~halted
    /\ DeleteEnds(deleteBlockFromBuf(Members, key), key)

\* printBuf(), with result r.
DumpEnds(r) == Return(r.s, Call("dump", 0, 0), RC_SUCCESS, NoBufInfo, r.text, live)

Dump ==
    /\ ~halted
    /\ DumpEnds(printBuf(Members))

\* The caller: any call with any block, MaxCalls times.
Next ==
    \/ \E key \in Keys, tag \in Tags, size \in Sizes : Add(key, tag, size)
    \/ \E key \in Keys : Delete(key)
    \/ Dump

Spec == Init /\ [][Next]_vars

\* ------------------------------------------------------------ wrapped rings
\* A second caller, for the layouts in which three blocks lie across the end
\* of the ring: a ring one byte larger, one more key, one more call, and only
\* blocks of one or two bytes or one byte too large for the ring.
WrapKeys == 1 .. (NumKeys + 1)
WrapSizes == {1, 2, BufSize + 2}

InitWrap ==
    /\ bufSize = BufSize + 1
    /\ \E v \in UninitBytes : buf = [i \in 0 .. BufSize |-> v]
    /\ bufStart = 0
    /\ bufEnd = 0
    /\ bufBytesFree = BufSize + 1
    /\ bufBytesDeletePending = 0
    /\ blockList = << >>
    /\ blockMap = [k \in WrapKeys |-> 0]
    /\ halted = FALSE
    /\ last = NoCall
    /\ bufInfo = NoBufInfo
    /\ out = << >>
    /\ live = << >>
    /\ callsLeft = MaxCalls + 1
    /\ pc = [t \in Threads |-> "idle"]
    /\ loc = [t \in Threads |-> NoLocals]

NextWrap ==
    \/ \E key \in WrapKeys, size \in WrapSizes : Add(key, 1, size)
    \/ \E key \in WrapKeys : Delete(key)
    \/ Dump

SpecWrap == InitWrap /\ [][NextWrap]_vars

\* ------------------------------------------------------------------ threads
\* Several threads call into one buffer.  The public functions take no lock
\* (the places where they would are marked "TBD: acquire lock"), so a thread
\* can stand anywhere in a call while another thread runs.  A step of a thread
\* is one stretch of the code of its call, run without interruption.
ThreadSizes == {1, 2}

\* The members become those of s.
SetMembers(s) ==
    /\ bufSize' = s.bufSize
    /\ buf' = s.buf
    /\ bufStart' = s.bufStart
    /\ bufEnd' = s.bufEnd
    /\ bufBytesFree' = s.bufBytesFree
    /\ bufBytesDeletePending' = s.bufBytesDeletePending
    /\ blockList' = s.blockList
    /\ blockMap' = s.blockMap

\* A BufBlock pointer held by a thread, after compactBuf has run on the
\* current list: -1 (dangling) if its BufBlock was freed.
Rehold(i) ==
    IF i <= 0 THEN i
    ELSE IF blockList[i].blockDeletePending THEN -1
    ELSE i - Cardinality({j \in 1 .. (i - 1) : blockList[j].blockDeletePending})

\* Thread t goes on at label with locals l and members s; compacted tells
\* whether the step freed the BufBlocks pending delete.
Goes(t, s, label, l, compacted) ==
    /\ SetMembers(s)
    /\ halted' = FALSE
    /\ pc' = [pc EXCEPT ![t] = label]
    /\ loc' = [u \in Threads |->
                  IF u = t THEN l
                  ELSE IF compacted
                  THEN [loc[u] EXCEPT !.bufBlock = Rehold(loc[u].bufBlock)]
                  ELSE loc[u]]

\* A step of a thread runs into a memory fault.
Faults ==
    /\ halted' = TRUE
    /\ UNCHANGED << bufSize, buf, bufStart, bufEnd, bufBytesFree,
                    bufBytesDeletePending, blockList, blockMap, pc, loc >>

\* A step of thread t ends, with the fault outcomes of Return.
ThreadStep(t, s, label, l, compacted) ==
    IF s.fault = "none" THEN Goes(t, s, label, l, compacted)
    ELSE IF s.fault = "wild" THEN Faults
    ELSE Goes(t, s, label, l, compacted) \/ Faults

\* Thread t enters a public call: lines up to the use of findBlockInMap's
\* result.
Enters(t, op, key, tag, size, label, rc) ==
    /\ callsLeft > 0
    /\ callsLeft' = callsLeft - 1
    /\ Goes(t, Members, label,
            [op |-> op, key |-> key, tag |-> tag, size |-> size, rc |-> rc,
             bufBlock |-> IF key = 0 THEN 0 ELSE findBlockInMap(Members, key),
             blockAddrInBuf |-> 0,
             found |-> Call(op, key, size).found,
             pending |-> Call(op, key, size).pending],
            FALSE)
    /\ UNCHANGED << last, bufInfo, out, live >>

\* addBlockToBuf up to the test of blockDeletePending.
AddFind(t, key, tag, size) ==
    /\ ~halted
    /\ pc[t] = "idle"
    /\ Enters(t, "add", key, tag, size,
              IF findBlockInMap(Members, key) = 0 THEN "add_append"
              ELSE IF blockList[findBlockInMap(Members, key)].blockDeletePending
              THEN "add_compact"
              ELSE "leave",
              IF findBlockInMap(Members, key) # 0
                 /\ ~blockList[findBlockInMap(Members, key)].blockDeletePending
              THEN RC_BLOCK_ADD_FAILED_DUPLICATE ELSE RC_SUCCESS)

\* A later step of thread t inside its call.
Inside(t, label) ==
    /\ ~halted
    /\ pc[t] = label
    /\ UNCHANGED << last, bufInfo, out, live, callsLeft >>

\* addBlockToBuf: compactBuf() for a key pending delete.
AddCompact(t) ==
    /\ Inside(t, "add_compact")
    /\ ThreadStep(t, compactBuf(Members), "add_append", loc[t],
                  bufBytesDeletePending # 0)

\* The result a of appendBlockToBuf, kept in the locals of thread t.
AddAppended(t, a) ==
    ThreadStep(t, a.s, IF a.rc = RC_SUCCESS THEN "add_link" ELSE "leave",
               [loc[t] EXCEPT !.rc = a.rc, !.blockAddrInBuf = bufEnd],
               /\ bufBytesDeletePending # 0
               /\ loc[t].size > bufBytesFree
               /\ loc[t].size <= UAdd(bufBytesFree, bufBytesDeletePending))

\* addBlockToBuf: blockAddrInBuf = bufEnd; rc = appendBlockToBuf(...).
AddAppend(t) ==
    /\ Inside(t, "add_append")
    /\ AddAppended(t, appendBlockToBuf(Members, Data(loc[t].tag, loc[t].size),
                                       loc[t].size))

\* The result a of linking the new BufBlock and of addBlockToMap.
AddLinked(t, a) ==
    ThreadStep(t, a.s, "leave", [loc[t] EXCEPT !.rc = a.rc], FALSE)

\* addBlockToBuf: the new BufBlock, linked at the tail and put in the map.
AddLink(t) ==
    /\ Inside(t, "add_link")
    /\ AddLinked(t, linkBlock([s |-> Members, rc |-> RC_SUCCESS],
                              loc[t].blockAddrInBuf, loc[t].key, loc[t].size))

\* deleteBlockFromBuf up to the test of findBlockInMap's result.
DeleteFind(t, key) ==
    /\ ~halted
    /\ pc[t] = "idle"
    /\ Enters(t, "delete", key, 0, 0,
              IF findBlockInMap(Members, key) = 0 THEN "leave" ELSE "delete_mark",
              RC_SUCCESS)

\* deleteBlockFromBuf: bufBytesDeletePending += bufBlock->blockSize;
\* bufBlock->blockDeletePending = true, through the pointer found before.
DeleteMark(t) ==
    /\ Inside(t, "delete_mark")
    /\ IF loc[t].bufBlock < 0 THEN Faults
       ELSE ThreadStep(t,
                [Members EXCEPT
                    !.bufBytesDeletePending =
                        UAdd(@, blockList[loc[t].bufBlock].blockSize),
                    !.blockList[loc[t].bufBlock].blockDeletePending = TRUE],
                "leave", loc[t], FALSE)

\* setBufInfo(bufInfo); return rc: thread t leaves addBlockToBuf or
\* deleteBlockFromBuf.
Leave(t) ==
    /\ ~halted
    /\ pc[t] = "leave"
    /\ Goes(t, Members, "idle", NoLocals, FALSE)
    /\ last' = [op |-> loc[t].op, key |-> loc[t].key, size |-> loc[t].size,
                rc |-> loc[t].rc, found |-> loc[t].found,
                pending |-> loc[t].pending, prior |-> last.op]
    /\ bufInfo' = setBufInfo(Members)
    /\ live' = IF loc[t].op = "delete" THEN Forget(live, loc[t].key)
               ELSE IF loc[t].rc = RC_SUCCESS
               THEN Append(live, [key |-> loc[t].key,
                                  data |-> Data(loc[t].tag, loc[t].size)])
               ELSE live
    /\ UNCHANGED << out, callsLeft >>

\* printBuf: compactBuf().
DumpCompact(t) ==
    /\ ~halted
    /\ pc[t] = "idle"
    /\ callsLeft > 0
    /\ callsLeft' = callsLeft - 1
    /\ ThreadStep(t, compactBuf(Members), "dump_print",
                  [NoLocals EXCEPT !.op = "dump"], bufBytesDeletePending # 0)
    /\ UNCHANGED << last, bufInfo, out, live >>

\* The result r of the printing part of printBuf; thread t returns.
DumpPrinted(t, r) ==
    /\ ThreadStep(t, r.s, "idle", NoLocals, FALSE)
    /\ last' = [NoCall EXCEPT !.op = "dump", !.prior = last.op]
    /\ bufInfo' = NoBufInfo
    /\ out' = r.text

\* printBuf after compactBuf.
DumpPrint(t) ==
    /\ ~halted
    /\ pc[t] = "dump_print"
    /\ DumpPrinted(t, printCompacted(Members))
    /\ UNCHANGED << live, callsLeft >>

InitThreads ==
    /\ bufSize = BufSize
    /\ \E v \in UninitBytes : buf = [i \in 0 .. (BufSize - 1) |-> v]
    /\ bufStart = 0
    /\ bufEnd = 0
    /\ bufBytesFree = BufSize
    /\ bufBytesDeletePending = 0
    /\ blockList = << >>
    /\ blockMap = [k \in Keys |-> 0]
    /\ halted = FALSE
    /\ last = NoCall
    /\ bufInfo = NoBufInfo
    /\ out = << >>
    /\ live = << >>
    /\ callsLeft = ThreadCalls
    /\ pc = [t \in Threads |-> "idle"]
    /\ loc = [t \in Threads |-> NoLocals]

NextThreads ==
    \/ \E t \in Threads, key \in Keys, size \in ThreadSizes : AddFind(t, key, 1, size)
    \/ \E t \in Threads : AddCompact(t)
    \/ \E t \in Threads : AddAppend(t)
    \/ \E t \in Threads : AddLink(t)
    \/ \E t \in Threads, key \in Keys : DeleteFind(t, key)
    \/ \E t \in Threads : DeleteMark(t)
    \/ \E t \in Threads : Leave(t)
    \/ \E t \in Threads : DumpCompact(t)
    \/ \E t \in Threads : DumpPrint(t)

SpecThreads == InitThreads /\ [][NextThreads]_vars

\* ------------------------------------------------------------- observations
\* Total blockSize of the BufBlocks of q that are not blockDeletePending.
RECURSIVE LiveBytes(_)
LiveBytes(q) ==
    IF q = << >> THEN 0
    ELSE (IF Head(q).blockDeletePending THEN 0 ELSE Head(q).blockSize)
         + LiveBytes(Tail(q))

\* The data of the blocks of lv, one after the other.
RECURSIVE Concat(_)
Concat(lv) == IF lv = << >> THEN << >> ELSE Head(lv).data \o Concat(Tail(lv))

\* Key and size of the BufBlocks of q that are not blockDeletePending, in order.
RECURSIVE Kept(_)
Kept(q) ==
    IF q = << >> THEN << >>
    ELSE (IF Head(q).blockDeletePending THEN << >>
          ELSE << << Head(q).blockMapKey, Head(q).blockSize >> >>)
         \o Kept(Tail(q))

\* The step is a public call of op (every call uses up one of callsLeft).
IsCall(op) == callsLeft' = callsLeft - 1 /\ last'.op = op

\* What printBuf would write in the current state.
DumpText == printBuf(Members).text

\* Total blockSize of the first n BufBlocks of q.
RECURSIVE SizeOfFirst(_, _)
SizeOfFirst(q, n) == IF n <= 0 THEN 0 ELSE q[n].blockSize + SizeOfFirst(q, n - 1)

\* The bytes of the occupied region, from bufStart on: bufSize - bufBytesFree
\* of them, those of the blocks pending delete included.
Occupied ==
    [k \in 1 .. (bufSize - bufBytesFree) |-> buf[(bufStart + k - 1) % bufSize]]

\* The occupied region without the bytes of the i-th BufBlock.
Excised(i) ==
    SubSeq(Occupied, 1, SizeOfFirst(blockList, i - 1))
        \o SubSeq(Occupied, SizeOfFirst(blockList, i) + 1, Len(Occupied))

\* The i-th BufBlock is the only one pending delete, it is not empty and
\* bufBytesDeletePending counts it once.
OnlyPending(i) ==
    /\ blockList[i].blockDeletePending
    /\ blockList[i].blockSize > 0
    /\ bufBytesDeletePending = blockList[i].blockSize
    /\ \A j \in DOMAIN blockList : blockList[j].blockDeletePending => j = i

\* Every BufBlock's blockInBuf is where its first byte lies: bufStart plus the
\* sizes of the BufBlocks before it, modulo bufSize.
OffsetsRight ==
    \A i \in DOMAIN blockList :
        blockList[i].blockInBuf
            = (bufStart + SizeOfFirst(blockList, i - 1)) % bufSize

\* The length of [bufStart, bufEnd) modulo bufSize is bufSize - bufBytesFree.
CursorsRight ==
    (bufEnd - bufStart) % bufSize = (bufSize - bufBytesFree) % bufSize

\* The BufBlocks of the list fill the occupied region exactly.
ListFillsRegion == SizeOfFirst(blockList, Len(blockList)) = bufSize - bufBytesFree

\* ------------------------------------------------------------------- claims

\* C1: in every reachable state the size of the ring equals bufBytesFree plus
\* bufBytesDeletePending plus the sizes of the blocks that are not pending
\* delete, repeated deletes of one key included.
C1_CapacityAccounted ==
    bufSize = bufBytesFree + bufBytesDeletePending + LiveBytes(blockList)

\* C2: a printBuf that returns writes exactly the data of the blocks added
\* with RC_SUCCESS and not deleted since, oldest first.
C2_DumpIsLiveBlocks ==
    (last.op = "dump" /\ ~halted) => out = Concat(live)

\* C3: after a delete of a key that was stored and not pending delete, an add
\* of the same key whose size is at most bufBytesFree + bufBytesDeletePending
\* returns RC_SUCCESS, and printBuf would then write the surviving blocks
\* followed by the new data.
C3_DeleteThenAdd ==
    [][ ( /\ last.op = "delete" /\ last.found /\ ~last.pending /\ ~halted
          /\ IsCall("add") /\ last'.key = last.key
          /\ last'.size <= bufBytesFree + bufBytesDeletePending )
        => ( /\ ~halted'
             /\ last'.rc = RC_SUCCESS
             /\ DumpText' = Concat(live') ) ]_vars

\* C4: an add of a key that is not in the map, when it returns, returns
\* RC_SUCCESS if its size is at most bufBytesFree + bufBytesDeletePending and
\* RC_BLOCK_SIZE_EXCEEDS_FREE_SPACE otherwise.
C4_Admission ==
    [][ (IsCall("add") /\ ~last'.found /\ ~halted')
        => last'.rc = IF last'.size <= bufBytesFree + bufBytesDeletePending
                      THEN RC_SUCCESS
                      ELSE RC_BLOCK_SIZE_EXCEEDS_FREE_SPACE ]_vars

C6_DuplicateAddChangesNothing ==
    [][ (IsCall("add") /\ last'.found /\ ~last'.pending)
        => ( /\ ~halted'
             /\ last'.rc = RC_BLOCK_ADD_FAILED_DUPLICATE
             /\ Members' = Members
             /\ bufInfo' = setBufInfo(Members)
             /\ live' = live ) ]_vars

\* C6 happens: a duplicate add of a non-empty block was made while another
\* block was pending delete.
C6_DuplicateAddSeen ==
    /\ last.op = "add" /\ last.found /\ ~last.pending /\ ~halted
    /\ last.size > 0
    /\ bufBytesDeletePending > 0

\* C7: a delete of a key that is not in the map returns RC_BLOCK_NOT_FOUND,
\* leaves every member as it was and reports the statistics of before the call.
C7_DeleteAbsentKey ==
    [][ (IsCall("delete") /\ ~last'.found)
        => ( /\ last'.rc = RC_BLOCK_NOT_FOUND
             /\ Members' = Members
             /\ bufInfo' = setBufInfo(Members) ) ]_vars

\* C8: a delete of a key whose block is already pending delete returns
\* RC_BLOCK_NOT_FOUND, does not raise bufBytesDeletePending again and reports
\* the statistics of before the call.
C8_DeletePendingKey ==
    [][ (IsCall("delete") /\ last'.found /\ last'.pending)
        => ( /\ last'.rc = RC_BLOCK_NOT_FOUND
             /\ bufBytesDeletePending' = bufBytesDeletePending
             /\ bufInfo' = setBufInfo(Members) ) ]_vars

\* C9: a printBuf made right after a printBuf returns, writes the same bytes
\* and leaves every member as it was.
C9_SecondDumpSame ==
    [][ (last.op = "dump" /\ ~halted /\ IsCall("dump"))
        => ( /\ ~halted'
             /\ out' = out
             /\ Members' = Members ) ]_vars

\* C9 happens: two printBuf calls in a row that wrote bytes, with a block
\* wrapped around the end of the ring.
C9_SecondDumpSeen ==
    /\ last.op = "dump" /\ last.prior = "dump" /\ ~halted
    /\ out # << >>
    /\ \E i \in DOMAIN blockList :
           blockList[i].blockInBuf + blockList[i].blockSize > bufSize

\* C10 as stated: an add that returns RC_BLOCK_SIZE_EXCEEDS_FREE_SPACE leaves
\* every member as it was.
C10_RejectedAddChangesNothing ==
    [][ (IsCall("add") /\ ~halted' /\ last'.rc = RC_BLOCK_SIZE_EXCEEDS_FREE_SPACE)
        => Members' = Members ]_vars

\* C10 amended: an add that returns RC_BLOCK_SIZE_EXCEEDS_FREE_SPACE adds no
\* block and keeps the blocks that are not pending delete (their keys, sizes
\* and order, and their map entries) and the sum bufBytesFree +
\* bufBytesDeletePending; it leaves every member as it was when no compaction
\* ran, that is when bufBytesDeletePending is 0, or when the key is not
\* pending delete and the size exceeds bufBytesFree + bufBytesDeletePending.
C10_RejectedAddKeepsBlocks ==
    [][ (IsCall("add") /\ ~halted' /\ last'.rc = RC_BLOCK_SIZE_EXCEEDS_FREE_SPACE)
        => ( /\ Kept(blockList') = Kept(blockList)
             /\ bufSize' = bufSize
             /\ UAdd(bufBytesFree', bufBytesDeletePending')
                    = UAdd(bufBytesFree, bufBytesDeletePending)
             /\ \A k \in DOMAIN blockMap :
                    (blockMap[k] # 0 /\ ~blockList[blockMap[k]].blockDeletePending)
                    => ( /\ blockMap'[k] # 0
                         /\ ~blockList'[blockMap'[k]].blockDeletePending
                         /\ blockList'[blockMap'[k]].blockMapKey = k
                         /\ blockList'[blockMap'[k]].blockSize
                                = blockList[blockMap[k]].blockSize )
             /\ live' = live
             /\ ( ( \/ bufBytesDeletePending = 0
                    \/ ( /\ ~last'.pending
                         /\ last'.size > UAdd(bufBytesFree, bufBytesDeletePending) ) )
                  => Members' = Members ) ) ]_vars

\* C10 happens: an add of a key pending delete was rejected after it had
\* compacted the ring, and blocks are left in it.
C10_RejectedAfterCompaction ==
    /\ last.op = "add" /\ last.rc = RC_BLOCK_SIZE_EXCEEDS_FREE_SPACE /\ ~halted
    /\ last.found /\ last.pending
    /\ bufBytesDeletePending = 0
    /\ blockList # << >>

\* C11: the public calls on one buffer exclude each other: no two threads are
\* inside a call at the same time.
C11_OneThreadInside ==
    \A t, u \in Threads : (pc[t] # "idle" /\ pc[u] # "idle") => t = u

\* C12: when the ring is laid out as its counters and list say, and the only
\* block pending delete is neither the head nor the tail of the list, the
\* compaction of a printBuf returns without a fault, leaves bufStart, moves
\* bufEnd back by the size of the block modulo bufSize, and leaves in the
\* occupied region the bytes it held minus those of the block.
C12_InteriorRemoval ==
    [][ \A i \in DOMAIN blockList :
          ( /\ IsCall("dump") /\ ~halted
            /\ 1 < i /\ i < Len(blockList)
            /\ OnlyPending(i)
            /\ OffsetsRight /\ CursorsRight /\ ListFillsRegion )
          => ( /\ ~halted'
               /\ bufStart' = bufStart
               /\ bufEnd' = (bufEnd - blockList[i].blockSize) % bufSize
               /\ Occupied' = Excised(i) ) ]_vars

\* The ring after the len bytes of data are written from bufEnd on, byte i at
\* (bufEnd + i) modulo bufSize.
Written(data, len) ==
    [a \in DOMAIN buf |->
        IF (a - bufEnd) % bufSize < len THEN data[((a - bufEnd) % bufSize) + 1]
        ELSE buf[a]]

\* C13: an addBlockToBuf of a key that is not stored, with blockSize no more
\* than bufBytesFree, returns RC_SUCCESS without a copy leaving the ring, puts
\* byte i of the block at (bufEnd + i) modulo bufSize and changes no other
\* byte, moves bufEnd forward by blockSize modulo bufSize and takes blockSize
\* off bufBytesFree.
C13_AppendInPlace ==
    [][ ( /\ IsCall("add") /\ ~halted
          /\ ~last'.found
          /\ last'.size <= bufBytesFree )
        => ( /\ ~halted'
             /\ last'.rc = RC_SUCCESS
             /\ \E tag \in Tags : buf' = Written(Data(tag, last'.size), last'.size)
             /\ bufEnd' = (bufEnd + last'.size) % bufSize
             /\ bufBytesFree' = bufBytesFree - last'.size ) ]_vars

\* C14: between public calls the blockInBuf of every BufBlock is the position
\* of its first byte: bufStart plus the sizes of the BufBlocks before it in the
\* list, modulo bufSize.
C14_StoredOffsets == ~halted => OffsetsRight

\* C15: when the ring is laid out as its counters and list say and the only
\* block pending delete is the head of the list, the compaction of a printBuf
\* moves no byte and changes no cursor but bufStart, which advances by the size
\* of the block modulo bufSize; so too when the head is the only BufBlock.
C15_HeadRemoval ==
    [][ ( /\ IsCall("dump") /\ ~halted
          /\ blockList # << >>
          /\ OnlyPending(1)
          /\ OffsetsRight /\ CursorsRight /\ ListFillsRegion )
        => ( /\ ~halted'
             /\ buf' = buf
             /\ bufStart' = (bufStart + blockList[1].blockSize) % bufSize
             /\ bufEnd' = bufEnd ) ]_vars

\* C16: a deleteBlockFromBuf of a stored key that is not pending delete returns
\* RC_SUCCESS, sets blockDeletePending in the BufBlock of the key and adds its
\* blockSize to bufBytesDeletePending; the bytes of the ring, bufStart, bufEnd,
\* bufBytesFree, the map and everything else in the list stay as they were.
C16_DeleteOnlyMarks ==
    [][ ( /\ IsCall("delete") /\ ~halted
          /\ last'.found /\ ~last'.pending )
        => ( /\ ~halted'
             /\ last'.rc = RC_SUCCESS
             /\ blockList' = [blockList EXCEPT
                                ![blockMap[last'.key]].blockDeletePending = TRUE]
             /\ bufBytesDeletePending'
                    = bufBytesDeletePending + blockList[blockMap[last'.key]].blockSize
             /\ UNCHANGED << bufSize, buf, bufStart, bufEnd, bufBytesFree,
                             blockMap >> ) ]_vars

\* A block of some bytes has just been marked, next to a block that stays.
C16_MarkedBesideLive ==
    /\ ~halted
    /\ last.op = "delete" /\ last.found /\ ~last.pending
    /\ blockList[blockMap[last.key]].blockDeletePending
    /\ blockList[blockMap[last.key]].blockSize > 0
    /\ \E i \in DOMAIN blockList : ~blockList[i].blockDeletePending

\* C17: when a printBuf returns, its compaction has left no BufBlock pending
\* delete and bufBytesDeletePending at 0, and the BufBlocks that were not
\* pending are all still in the list, in the same order and of the same size.
C17_CompactionClearsPending ==
    [][ ( IsCall("dump") /\ ~halted /\ ~halted' )
        => ( /\ \A i \in DOMAIN blockList' : ~blockList'[i].blockDeletePending
             /\ bufBytesDeletePending' = 0
             /\ Kept(blockList') = Kept(blockList) ) ]_vars

\* C18: no addBlockToBuf returns RC_BLOCK_ADD_FAILED_MAP_ERR, and between
\* public calls the list and the map hold the same BufBlocks: every BufBlock of
\* the list is the one the map holds for its key, and every entry of the map
\* is a BufBlock of the list with that key.
C18_ListAndMapAgree ==
    ~halted =>
        /\ last.rc # RC_BLOCK_ADD_FAILED_MAP_ERR
        /\ \A i \in DOMAIN blockList : blockMap[blockList[i].blockMapKey] = i
        /\ \A k \in DOMAIN blockMap :
              blockMap[k] # 0 =>
                  /\ blockMap[k] \in DOMAIN blockList
                  /\ blockList[blockMap[k]].blockMapKey = k

\* C19: between public calls the length of [bufStart, bufEnd) modulo bufSize is
\* bufSize - bufBytesFree: the cursors meet exactly when the ring is empty or
\* full.
C19_CursorsMatchCounter ==
    ~halted =>
        /\ (bufEnd - bufStart) % bufSize = (bufSize - bufBytesFree) % bufSize
        /\ (bufStart = bufEnd) <=> (bufBytesFree \in {0, bufSize})

\* C20: between public calls bufStart, bufEnd and the blockInBuf of every
\* BufBlock are offsets of bytes of the ring, 0 .. bufSize - 1; none is left at
\* bufLastPlusOne.
C20_CursorsInsideRing ==
    ~halted =>
        /\ bufStart \in 0 .. (bufSize - 1)
        /\ bufEnd \in 0 .. (bufSize - 1)
        /\ \A i \in DOMAIN blockList :
              blockList[i].blockInBuf \in 0 .. (bufSize - 1)

====
